---- MODULE Spec2Model ----
(***************************************************************************)
(* The pit-stop scatterplot page (src/unnamed/part_000) and its tick       *)
(* formatter (src/src/utils.js) as a state machine.  The page is one       *)
(* top-level script: it loads five CSV tables, groups four of them, builds *)
(* the observation array, computes the domain, the range, the two axes and *)
(* the dots.  Each statement group of the script is one action; a thrown   *)
(* TypeError ends the script (pc = "failed").                              *)
(*                                                                         *)
(* Values.  A JavaScript number is [nan, v]; a Date is its time value, a   *)
(* number counted in days since 1970-01-01 (every date text of the model   *)
(* is a date-only form, which parses to UTC midnight).  `undefined` is the *)
(* empty tuple and a defined optional value v is <<v>>.  A text that the   *)
(* script parses (milliseconds, date) is a tuple of characters.            *)
(***************************************************************************)
EXTENDS Integers, Sequences, FiniteSets, TLC

VARIABLES csv, host, pitstops, races, drivers, constructors, results,
          data, domain, range, xAxis, yAxis, dots, pc, thrown

vars == <<csv, host, pitstops, races, drivers, constructors, results,
          data, domain, range, xAxis, yAxis, dots, pc, thrown>>

\* ---------------------------------------------------------------- bounds
MaxFacts == 3
MaxRows == 2

\* ---------------------------------------------------------------- values
undefined == <<>>

NaN == [nan |-> TRUE, v |-> 0]

Num(n) == [nan |-> FALSE, v |-> n]

\* a < b, a <= b, a > b, a >= b on JavaScript numbers: false when either is NaN
NumLt(a, b) == ~a.nan /\ ~b.nan /\ a.v < b.v

NumLe(a, b) == ~a.nan /\ ~b.nan /\ a.v <= b.v

\* Array.prototype.reverse
reverse(arr) == [i \in 1..Len(arr) |-> arr[Len(arr) + 1 - i]]

Threw == [threw |-> TRUE, val |-> undefined]

Ok(v) == [threw |-> FALSE, val |-> v]

DigitChars == {"0", "1", "2", "3", "4", "5", "6", "7", "8", "9"}

DigitVal(c) ==
    CASE c = "0" -> 0 [] c = "1" -> 1 [] c = "2" -> 2 [] c = "3" -> 3
      [] c = "4" -> 4 [] c = "5" -> 5 [] c = "6" -> 6 [] c = "7" -> 7
      [] c = "8" -> 8 [] c = "9" -> 9

RECURSIVE DecimalValue(_)
DecimalValue(t) ==
    IF t = <<>> THEN 0
    ELSE 10 * DecimalValue(SubSeq(t, 1, Len(t) - 1)) + DigitVal(t[Len(t)])

AllDigits(t) == \A i \in 1..Len(t) : t[i] \in DigitChars

\* Number(text) for the texts of the model (no sign, fraction, exponent or
\* blanks): the empty text is 0, a run of digits its value, anything else NaN.
Number(t) ==
    IF t = <<>> THEN Num(0)
    ELSE IF AllDigits(t) THEN Num(DecimalValue(t))
    ELSE NaN

IsLeap(y) == (y % 4 = 0 /\ y % 100 # 0) \/ y % 400 = 0

DaysInMonth(y, m) ==
    IF m = 2 THEN (IF IsLeap(y) THEN 29 ELSE 28)
    ELSE IF m \in {4, 6, 9, 11} THEN 30 ELSE 31

\* days from 1970-01-01 to the civil date y-m-d (proleptic Gregorian)
DaysFromCivil(y, m, d) ==
    LET yy == IF m <= 2 THEN y - 1 ELSE y
        era == yy \div 400
        yoe == yy - era * 400
        mp == IF m > 2 THEN m - 3 ELSE m + 9
        doy == (153 * mp + 2) \div 5 + d - 1
        doe == yoe * 365 + yoe \div 4 - yoe \div 100 + doy
    IN  era * 146097 + doe - 719468

\* new Date(text): "YYYY-MM-DD" with a month and a day that exist is UTC
\* midnight of that day; any other text of the model, and undefined, is an
\* Invalid Date (time value NaN).
NewDate(t) ==
    IF t = undefined THEN NaN
    ELSE LET s == t[1] IN
      IF /\ Len(s) = 10
         /\ s[5] = "-" /\ s[8] = "-"
         /\ \A i \in {1, 2, 3, 4, 6, 7, 9, 10} : s[i] \in DigitChars
      THEN LET y == DecimalValue(SubSeq(s, 1, 4))
               m == DecimalValue(SubSeq(s, 6, 7))
               d == DecimalValue(SubSeq(s, 9, 10))
           IN  IF m \in 1..12 /\ d \in 1..DaysInMonth(y, m)
               THEN Num(DaysFromCivil(y, m, d))
               ELSE NaN
      ELSE NaN

\* String(v) inside a template literal
Str(m) == IF m = undefined THEN "undefined" ELSE m[1]

\* ---------------------------------------------------------------- tables
\* d3 group(rows, d => String(d[field])): an InternMap from key to the rows
\* that have it, in input order.
group(rows, field) ==
    [k \in {rows[i][field] : i \in 1..Len(rows)} |->
        SelectSeq(rows, LAMBDA r : r[field] = k)]

\* d3 group(rows, key1, key2): a map of maps
group2(rows, field1, field2) ==
    LET outer == group(rows, field1)
    IN  [k \in DOMAIN outer |-> group(outer[k], field2)]

\* InternMap.get: the value, or undefined when the key is absent.  The key
\* itself may be undefined (no row is grouped under it).
get(map, key) ==
    IF key # undefined /\ key[1] \in DOMAIN map THEN <<map[key[1]]>>
    ELSE undefined

\* a variant of first that reads the last row of the group
firstIsLast(arr) == IF Len(arr) = 0 THEN undefined ELSE <<arr[Len(arr)]>>

\* array[0] on a defined array
first(arr) == IF Len(arr) = 0 THEN undefined ELSE <<arr[1]>>

\* const getRace = (raceId) => races.get(raceId)[0]
getRace(raceId) ==
    LET g == get(races, <<raceId>>)
    IN  IF g = undefined THEN Threw ELSE Ok(first(g[1]))

\* const getDriver = (driverId) => drivers.get(driverId)[0]
getDriver(driverId) ==
    LET g == get(drivers, <<driverId>>)
    IN  IF g = undefined THEN Threw ELSE Ok(first(g[1]))

\* results.get(raceId)?.get(driverId)[0].constructorId : `?.` ends the whole
\* chain with undefined when the race has no group; the later hops are plain
\* member reads and throw on undefined.
resultConstructorId(raceId, driverId) ==
    LET byRace == get(results, <<raceId>>)
    IN  IF byRace = undefined THEN Ok(undefined)
        ELSE LET rows == get(byRace[1], <<driverId>>)
             IN  IF rows = undefined THEN Threw
                 ELSE LET row == first(rows[1])
                      IN  IF row = undefined THEN Threw
                          ELSE Ok(<<row[1].constructorId>>)

\* const getContructor = (raceId, driverId) => constructors.get(...)[0]
getContructor(raceId, driverId) ==
    LET id == resultConstructorId(raceId, driverId)
    IN  IF id.threw THEN Threw
        ELSE LET g == get(constructors, id.val)
             IN  IF g = undefined THEN Threw ELSE Ok(first(g[1]))

\* ---------------------------------------------------------- observations
\* a variant of keep that lets the threshold itself through (<= for <)
keepUpTo(d) == NumLe(Number(d.milliseconds), Num(120000))

\* the filter predicate: d => Number(d.milliseconds) < 120000
keep(d) == NumLt(Number(d.milliseconds), Num(120000))

\* a variant of filter that hands the kept facts over last to first
filterReversed(facts) == reverse(SelectSeq(facts, LAMBDA d : NumLt(Number(d.milliseconds), Num(120000))))

\* pitstops.filter(...)
filter(facts) == SelectSeq(facts, keep)

\* the projection of one retained fact (the arrow function given to map)
observation(d) ==
    LET race == getRace(d.raceId)
        driver == getDriver(d.driverId)
        constructor == getContructor(d.raceId, d.driverId)
    IN  IF race.threw \/ driver.threw \/ constructor.threw THEN Threw
        \* `${driver?.forename} ${driver.surname}`: driver.surname is a plain read
        ELSE IF driver.val = undefined THEN Threw
        ELSE Ok([y |-> Number(d.milliseconds),
                 x |-> NewDate(IF race.val = undefined THEN undefined
                               ELSE <<race.val[1].date>>),
                 race |-> IF race.val = undefined THEN undefined
                          ELSE <<race.val[1].name>>,
                 driver |-> driver.val[1].forename \o " " \o driver.val[1].surname,
                 constructor |-> IF constructor.val = undefined THEN undefined
                                 ELSE <<constructor.val[1].name>>,
                 lap |-> <<d.lap>>])

\* Array.prototype.map: element by element, in order; the first throw ends it
RECURSIVE map(_)
map(facts) ==
    IF facts = <<>> THEN Ok(<<>>)
    ELSE LET h == observation(Head(facts))
         IN  IF h.threw THEN Threw
             ELSE LET t == map(Tail(facts))
                  IN  IF t.threw THEN Threw ELSE Ok(<<h.val>> \o t.val)

\* ------------------------------------------------------------------ domain
\* d3 minIndex(values, d => d[field]): the loop, from JavaScript index i on,
\* with the running minimum min (undefined at first) found at index idx.
RECURSIVE minIndexFrom(_, _, _, _, _)
minIndexFrom(values, field, i, min, idx) ==
    IF i >= Len(values) THEN idx
    ELSE LET value == values[i + 1][field]
         IN  IF \/ (min # undefined /\ NumLt(value, min[1]))
                \/ (min = undefined /\ NumLe(value, value))
             THEN minIndexFrom(values, field, i + 1, <<value>>, i)
             ELSE minIndexFrom(values, field, i + 1, min, idx)

\* a variant of minIndex whose loop starts at the second element
minIndexFromSecond(values, field) == minIndexFrom(values, field, 1, undefined, -1)

minIndex(values, field) == minIndexFrom(values, field, 0, undefined, -1)

RECURSIVE maxIndexFrom(_, _, _, _, _)
maxIndexFrom(values, field, i, max, idx) ==
    IF i >= Len(values) THEN idx
    ELSE LET value == values[i + 1][field]
         IN  IF \/ (max # undefined /\ NumLt(max[1], value))
                \/ (max = undefined /\ NumLe(value, value))
             THEN maxIndexFrom(values, field, i + 1, <<value>>, i)
             ELSE maxIndexFrom(values, field, i + 1, max, idx)

\* a variant of maxIndex that keeps the smallest value (> for <)
maxIndexIsMin(values, field) == minIndexFrom(values, field, 0, undefined, -1)

maxIndex(values, field) == maxIndexFrom(values, field, 0, undefined, -1)

\* arr[i] with a JavaScript index: undefined outside the array
At(arr, i) == IF i >= 0 /\ i < Len(arr) THEN <<arr[i + 1]>> ELSE undefined

\* lines 117-124: the four extremal observations, then their fields
computeDomain(obs) ==
    LET minX == At(obs, minIndex(obs, "x"))
        maxX == At(obs, maxIndex(obs, "x"))
        minY == At(obs, minIndex(obs, "y"))
        maxY == At(obs, maxIndex(obs, "y"))
    IN  IF undefined \in {minX, maxX, minY, maxY} THEN Threw
        ELSE Ok([x |-> <<minX[1].x, maxX[1].x>>, y |-> <<minY[1].y, maxY[1].y>>])

\* ------------------------------------------------------------------- range
margin == [top |-> 20, right |-> 20, bottom |-> 20, left |-> 60]

width == 800

innerWidth == width - margin.right - margin.left

height == 500

innerHeight == height - margin.top - margin.bottom

NoPair == [x |-> undefined, y |-> undefined]

\* ------------------------------------------------------------------ scales
RECURSIVE Pow10(_)
Pow10(n) == IF n <= 0 THEN 1 ELSE 10 * Pow10(n - 1)

\* the number of decimal digits of n >= 1
RECURSIVE Digits(_)
Digits(n) == IF n < 10 THEN 1 ELSE 1 + Digits(n \div 10)

\* d3 tickIncrement(start, stop, 10) for whole numbers start < stop (below
\* 10^6 apart).  With step = (stop - start) / 10, power = floor(log10(step))
\* and error = step / 10^power, the factor is 10, 5 or 2 when error reaches
\* sqrt(50), sqrt(10) or sqrt(2) (compared here on error * 10^5, a whole
\* number).  A power below 0 gives the negated inverse step, as d3 does.
tickIncrement(start, stop) ==
    LET diff == stop - start
        power == Digits(diff) - 2
        error == diff * Pow10(6 - Digits(diff))
        factor == IF error >= 707107 THEN 10
                  ELSE IF error >= 316228 THEN 5
                  ELSE IF error >= 141422 THEN 2
                  ELSE 1
    IN  IF power < 0 THEN -(Pow10(-power) \div factor)
        ELSE Pow10(power) * factor

\* ceil(a / b) for b > 0
CeilDiv(a, b) == -((-a) \div b)

\* the loop of continuous.nice(): widen [start, stop] to multiples of the tick
\* step until the step no longer changes, at most maxIter times; a loop that
\* runs out leaves the domain as it was given (d).  A negative step (an
\* inverse step that is a whole number) leaves whole bounds where they are.
RECURSIVE niceLoop(_, _, _, _, _)
niceLoop(d, start, stop, prestep, maxIter) ==
    IF maxIter <= 0 THEN d
    ELSE LET step == tickIncrement(start, stop)
         IN  IF prestep = <<step>> THEN <<start, stop>>
             ELSE IF step > 0
                  THEN niceLoop(d, (start \div step) * step, CeilDiv(stop, step) * step,
                                <<step>>, maxIter - 1)
                  ELSE niceLoop(d, start, stop, <<step>>, maxIter - 1)

\* scale.nice() on a domain of two whole numbers, d[1] <= d[2]; a domain of
\* one point has no tick step and stays as it is
nice(d) ==
    IF d[1].v = d[2].v THEN <<d[1].v, d[2].v>>
    ELSE niceLoop(<<d[1].v, d[2].v>>, d[1].v, d[2].v, undefined, 10)

\* scaleLinear().domain(domain).range(range).nice(): the scale keeps its own
\* copies of the (widened) domain and of the range
yScale(dom, rng) == [domain |-> nice(dom), range |-> rng]

\* scaleTime().domain(domain).range(range).nice(): kept as the two intervals
\* it was built from; the script's time ticks are not expanded
xScale(dom, rng) == [domain |-> dom, range |-> rng]

\* a linear scale applied to the number value: the exact pixel as the
\* fraction num / den (den > 0).  A one-point domain maps to the middle of
\* the range.
apply(scale, value) ==
    LET d0 == scale.domain[1]
        d1 == scale.domain[2]
        r0 == scale.range[1]
        r1 == scale.range[2]
    IN  IF d1 = d0 THEN [num |-> r0 + r1, den |-> 2]
        ELSE [num |-> r0 * (d1 - d0) + (value.v - d0) * (r1 - r0), den |-> d1 - d0]

\* --------------------------------------------------------------- formatter
Pad2(n) == IF n < 10 THEN "0" \o ToString(n) ELSE ToString(n)

Pad3(n) == IF n < 10 THEN "00" \o ToString(n)
           ELSE IF n < 100 THEN "0" \o ToString(n) ELSE ToString(n)

\* milisecondsToMinutes(value) on the host: new Date(0) with its milliseconds
\* set to value is the instant value; Intl.DateTimeFormat("default", ...)
\* prints that instant's minute, second and three fraction digits in the
\* host's time zone and with the host locale's pattern.
milisecondsToMinutes(value) ==
    LET local == value.v + host.tzOffsetMinutes * 60000
        minute == (local \div 60000) % 60
        second == (local \div 1000) % 60
        fraction == local % 1000
    IN  (IF host.minuteDigits = 2 THEN Pad2(minute) ELSE ToString(minute))
        \o ":" \o Pad2(second) \o host.decimal \o Pad3(fraction)

\* the tooltip of one dot (line 238)
title(d) ==
    Str(d.race) \o ": " \o Str(d.constructor) \o " (" \o d.driver
    \o ") pit stop at lap " \o Str(d.lap) \o " lasted " \o milisecondsToMinutes(d.y)

\* ------------------------------------------------------------------ inputs
D20200101 == <<"2", "0", "2", "0", "-", "0", "1", "-", "0", "1">>

D20210305 == <<"2", "0", "2", "1", "-", "0", "3", "-", "0", "5">>

DNull == <<"\\", "N">>

T500 == <<"5", "0", "0">>

T700 == <<"7", "0", "0">>

T90500 == <<"9", "0", "5", "0", "0">>

T119999 == <<"1", "1", "9", "9", "9", "9">>

T120000 == <<"1", "2", "0", "0", "0", "0">>

Race(id, name, date) == [raceId |-> id, name |-> name, date |-> date]

Driver(id, forename, surname) ==
    [driverId |-> id, forename |-> forename, surname |-> surname]

Constructor(id, name) == [constructorId |-> id, name |-> name]

Result(raceId, driverId, constructorId) ==
    [raceId |-> raceId, driverId |-> driverId, constructorId |-> constructorId]

Pit(raceId, driverId, ms, lap) ==
    [raceId |-> raceId, driverId |-> driverId, milliseconds |-> ms, lap |-> lap]

\* every sequence over S of length at most n
SeqsUpTo(S, n) == UNION {[1..k -> S] : k \in 0..n}

\* every sequence of distinct members of S of length at most n
TablesOver(S, n) ==
    {t \in SeqsUpTo(S, n) : \A i, j \in 1..Len(t) : i # j => t[i] # t[j]}

\* a host whose locale and time zone print 90500 ms as 1:30.500
PlainHost == [tzOffsetMinutes |-> 0, minuteDigits |-> 1, decimal |-> "."]

\* hosts: the zone's offset from UTC in January 1970, and the locale's
\* pattern for minute + second + fraction
Hosts ==
    [tzOffsetMinutes : {0, 330, -210}, minuteDigits : {1, 2}, decimal : {".", ","}]

FullRaces ==
    <<Race("1", "GP", D20200101), Race("2", "Cup", D20210305), Race("3", "Prix", DNull)>>

FullDrivers == <<Driver("10", "A", "B")>>

FullConstructors == <<Constructor("99", "Team")>>

FullResults ==
    <<Result("1", "10", "99"), Result("2", "10", "99"), Result("3", "10", "99"),
      Result("4", "10", "99")>>

\* facts over complete lookup tables, with every kind of milliseconds text
\* for races 1 and 2; race 3 has an unparseable date and race 4 is unknown
FactRows ==
    {Pit(r, "10", ms, IF r = "1" THEN "5" ELSE "12") :
        r \in {"1", "2"}, ms \in {<<>>, <<"x">>, T500, T119999, T120000}}
    \cup {Pit("3", "10", T500, "7"), Pit("4", "10", T500, "9")}

FactsFiles ==
    {[pit_stops |-> f, races |-> FullRaces, drivers |-> FullDrivers,
      constructors |-> FullConstructors, results |-> FullResults] :
        f \in SeqsUpTo(FactRows, MaxFacts)}

\* one fact over every small lookup table, rows with equal keys included
RaceRows ==
    {Race("1", "GP", D20200101), Race("1", "Cup", D20210305), Race("2", "Prix", D20200101)}

DriverRows == {Driver("10", "A", "B"), Driver("10", "C", "D")}

ConstructorRows ==
    {Constructor("99", "Team"), Constructor("99", "Other"), Constructor("98", "Squad")}

ResultRows == {Result("1", "10", "99"), Result("1", "10", "98"), Result("1", "11", "99")}

RelationFiles ==
    {[pit_stops |-> <<f>>, races |-> ra, drivers |-> dr, constructors |-> co,
      results |-> re] :
        f \in {Pit("1", "10", T500, "5"), Pit("2", "10", T700, "12")},
        ra \in TablesOver(RaceRows, MaxRows),
        dr \in TablesOver(DriverRows, MaxRows),
        co \in TablesOver(ConstructorRows, MaxRows),
        re \in TablesOver(ResultRows, MaxRows)}

\* one fact of every duration sample, on every host
FormatFiles ==
    {[pit_stops |-> <<Pit("1", "10", ms, "5")>>, races |-> FullRaces,
      drivers |-> FullDrivers, constructors |-> FullConstructors,
      results |-> FullResults] :
        ms \in {<<"0">>, T500, <<"1", "0", "0", "5">>, <<"5", "9", "9", "9", "9">>,
                <<"6", "0", "0", "0", "0">>, T90500, T119999}}

\* ------------------------------------------------------------ the script
\* lines 50-69: the five tables are loaded and four of them grouped
Loaded(files, h) ==
    /\ csv = files
    /\ host = h
    /\ pitstops = files.pit_stops
    /\ races = group(files.races, "raceId")
    /\ drivers = group(files.drivers, "driverId")
    /\ constructors = group(files.constructors, "constructorId")
    /\ results = group2(files.results, "raceId", "driverId")
    /\ data = <<>>
    /\ domain = NoPair
    /\ range = NoPair
    /\ xAxis = undefined
    /\ yAxis = undefined
    /\ dots = <<>>
    /\ pc = "data"
    /\ thrown = undefined

Init ==
    \/ \E files \in FactsFiles : Loaded(files, PlainHost)
    \/ \E files \in RelationFiles : Loaded(files, PlainHost)
    \/ \E files \in FormatFiles, h \in Hosts : Loaded(files, h)

Fail(step) ==
    /\ pc' = "failed"
    /\ thrown' = <<step>>

\* lines 88-101: const data = pitstops.filter(...).map(...)
BuildData ==
    /\ pc = "data"
    /\ LET r == map(filter(pitstops))
       IN  IF r.threw
           THEN Fail("data") /\ UNCHANGED data
           ELSE data' = r.val /\ pc' = "domain" /\ UNCHANGED thrown
    /\ UNCHANGED <<csv, host, pitstops, races, drivers, constructors, results,
                   domain, range, xAxis, yAxis, dots>>

\* lines 117-124: minX, maxX, minY, maxY and domain
ComputeDomain ==
    /\ pc = "domain"
    /\ LET r == computeDomain(data)
       IN  IF r.threw
           THEN Fail("domain") /\ UNCHANGED domain
           ELSE domain' = r.val /\ pc' = "range" /\ UNCHANGED thrown
    /\ UNCHANGED <<csv, host, pitstops, races, drivers, constructors, results,
                   data, range, xAxis, yAxis, dots>>

\* lines 139-147: margin, width, height and range
DefineRange ==
    /\ pc = "range"
    /\ range' = [x |-> <<0, innerWidth>>, y |-> <<0, innerHeight>>]
    /\ pc' = "axes"
    /\ UNCHANGED <<csv, host, pitstops, races, drivers, constructors, results,
                   data, domain, xAxis, yAxis, dots, thrown>>

\* a variant of DefineAxes whose reversal is made on a copy of range.y
DefineAxesOnCopy ==
    /\ pc = "axes"
    /\ xAxis' = <<xScale(domain.x, range.x)>>
    /\ yAxis' = <<yScale(domain.y, reverse(range.y))>>
    /\ pc' = "dots"
    /\ UNCHANGED <<csv, host, pitstops, races, drivers, constructors, results,
                   data, domain, range, dots, thrown>>

\* lines 187-190: range.y.reverse() reverses the array range.y itself and
\* hands that same array to yScale
DefineAxes ==
    /\ pc = "axes"
    /\ xAxis' = <<xScale(domain.x, range.x)>>
    /\ range' = [range EXCEPT !.y = reverse(range.y)]
    /\ yAxis' = <<yScale(domain.y, range'.y)>>
    /\ pc' = "dots"
    /\ UNCHANGED <<csv, host, pitstops, races, drivers, constructors, results,
                   data, domain, dots, thrown>>

\* one circle (lines 233-238): cx is the time scale and the instant handed
\* to it, cy the pixel of the linear scale
dot(d) ==
    [cx |-> [scale |-> xScale(domain.x, range.x), value |-> d.x],
     cy |-> apply(yScale(domain.y, range.y), d.y),
     title |-> title(d)]

\* lines 228-238: one circle per observation, in order
DrawDots ==
    /\ pc = "dots"
    /\ dots' = [i \in 1..Len(data) |-> dot(data[i])]
    /\ pc' = "done"
    /\ UNCHANGED <<csv, host, pitstops, races, drivers, constructors, results,
                   data, domain, range, xAxis, yAxis, thrown>>

Next == BuildData \/ ComputeDomain \/ DefineRange \/ DefineAxes \/ DrawDots

Spec == Init /\ [][Next]_vars

\* ------------------------------------------------------------------ claims
\* the observation array has been produced (the map did not throw)
DataBuilt == pc \in {"domain", "range", "axes", "dots", "done"} \/ thrown = <<"domain">>

\* the domain step has run, with or without a throw
DomainStepDone == pc \in {"range", "axes", "dots", "done"} \/ thrown = <<"domain">>

DomainComputed == pc \in {"range", "axes", "dots", "done"}

\* the positions in the fact table whose milliseconds is a number below 120000
RetainedSet ==
    {i \in 1..Len(pitstops) :
        LET n == Number(pitstops[i].milliseconds) IN ~n.nan /\ n.v < 120000}

\* the k-th retained position, counted in table order
Retained(k) ==
    CHOOSE i \in RetainedSet : Cardinality({j \in RetainedSet : j <= i}) = k

\* the position of the first row of a table with the key, 0 when there is none
FirstPos(table, field, key) ==
    IF \E i \in 1..Len(table) : table[i][field] = key
    THEN CHOOSE i \in 1..Len(table) :
            /\ table[i][field] = key
            /\ \A j \in 1..(i - 1) : table[j][field] # key
    ELSE 0

\* the position of the first result row of the race and driver, 0 when none
FirstResultPos(raceId, driverId) ==
    LET hit(i) == csv.results[i].raceId = raceId /\ csv.results[i].driverId = driverId
    IN  IF \E i \in 1..Len(csv.results) : hit(i)
        THEN CHOOSE i \in 1..Len(csv.results) : hit(i) /\ \A j \in 1..(i - 1) : ~hit(j)
        ELSE 0

RaceResolves(f) == FirstPos(csv.races, "raceId", f.raceId) # 0

DriverResolves(f) == FirstPos(csv.drivers, "driverId", f.driverId) # 0

\* C1: a retained fact whose raceId and driverId occur in no lookup table is
\* still projected: the build does not fail and yields, for that fact, an
\* observation with y = Number(milliseconds), the raw lap and no race and no
\* constructor, next to the observations of the other retained facts.
C1_UnresolvedFactIsProjected ==
    (/\ pc # "data"
     /\ \E i \in RetainedSet :
          /\ ~RaceResolves(pitstops[i])
          /\ ~DriverResolves(pitstops[i])
          /\ \A j \in 1..Len(csv.results) :
                /\ csv.results[j].raceId # pitstops[i].raceId
                /\ csv.results[j].driverId # pitstops[i].driverId)
    => /\ thrown # <<"data">>
       /\ Len(data) = Cardinality(RetainedSet)
       /\ \A k \in 1..Len(data) :
             (~RaceResolves(pitstops[Retained(k)]) /\ ~DriverResolves(pitstops[Retained(k)]))
             => /\ data[k].y = Number(pitstops[Retained(k)].milliseconds)
                /\ data[k].lap = <<pitstops[Retained(k)].lap>>
                /\ data[k].race = undefined
                /\ data[k].constructor = undefined

\* the three ways the constructor chain can come up empty for a fact whose
\* race and driver resolve
NoResultGroup(f) == \A j \in 1..Len(csv.results) : csv.results[j].raceId # f.raceId

NoResultRow(f) == ~NoResultGroup(f) /\ FirstResultPos(f.raceId, f.driverId) = 0

NoConstructorGroup(f) ==
    /\ FirstResultPos(f.raceId, f.driverId) # 0
    /\ FirstPos(csv.constructors, "constructorId",
                csv.results[FirstResultPos(f.raceId, f.driverId)].constructorId) = 0

\* C2: when every retained fact has its race and its driver, and the
\* constructor chain of some retained fact is empty at its first, second or
\* third hop, the build does not raise and that fact's observation has no
\* constructor.
C2_ConstructorChainShortCircuits ==
    (/\ pc # "data"
     /\ \A i \in RetainedSet : RaceResolves(pitstops[i]) /\ DriverResolves(pitstops[i])
     /\ \E i \in RetainedSet :
          NoResultGroup(pitstops[i]) \/ NoResultRow(pitstops[i])
          \/ NoConstructorGroup(pitstops[i]))
    => /\ thrown # <<"data">>
       /\ Len(data) = Cardinality(RetainedSet)
       /\ \A k \in 1..Len(data) :
             (NoResultGroup(pitstops[Retained(k)]) \/ NoResultRow(pitstops[Retained(k)])
              \/ NoConstructorGroup(pitstops[Retained(k)]))
             => data[k].constructor = undefined

\* C3: once the observations are built there is one per fact whose
\* Number(milliseconds) is below 120000 and none for any other fact (120000
\* itself and an unparseable text included), and every y is a number, never
\* NaN, below 120000.
C3_RetainedIffBelowThreshold ==
    DataBuilt =>
        /\ Len(data) = Cardinality(RetainedSet)
        /\ \A k \in 1..Len(data) : ~data[k].y.nan /\ data[k].y.v < 120000

\* a fact of 119999 ms is kept next to a dropped fact of 120000 ms
C3_Witness ==
    /\ DataBuilt
    /\ Len(data) = 1
    /\ data[1].y = Num(119999)
    /\ \E i \in 1..Len(pitstops) : pitstops[i].milliseconds = T120000

\* C7: the observations are the retained facts in table order: the k-th
\* observation carries the milliseconds and the lap of the k-th retained fact.
C7_OrderIsTableOrder ==
    DataBuilt =>
        /\ Len(data) = Cardinality(RetainedSet)
        /\ \A k \in 1..Len(data) :
              /\ data[k].y = Number(pitstops[Retained(k)].milliseconds)
              /\ data[k].lap = <<pitstops[Retained(k)].lap>>

\* three facts, the middle one dropped, the two kept ones different
C7_Witness ==
    /\ DataBuilt
    /\ Len(pitstops) = 3
    /\ RetainedSet = {1, 3}
    /\ Len(data) = 2
    /\ data[1].y # data[2].y
    /\ data[1].lap # data[2].lap

\* the domain step threw and nothing after it was computed
DomainFailure ==
    /\ pc = "failed"
    /\ thrown = <<"domain">>
    /\ domain = NoPair
    /\ xAxis = undefined
    /\ yAxis = undefined
    /\ dots = <<>>

PointDomain(o) == [x |-> <<o.x, o.x>>, y |-> <<o.y, o.y>>]

\* C4 as stated: with no observation the domain step fails and no scale,
\* axis or dot follows; with exactly one observation o the domain is
\* x = [o.x, o.x], y = [o.y, o.y].
C4_AsStated ==
    DomainStepDone =>
        /\ Len(data) = 0 => DomainFailure
        /\ Len(data) = 1 => pc # "failed" /\ domain = PointDomain(data[1])

\* C4 as amended: with no observation the domain step fails and no scale,
\* axis or dot follows; with exactly one observation o whose x is a valid
\* instant the domain is x = [o.x, o.x], y = [o.y, o.y]; with exactly one
\* observation whose x is an Invalid Date the step fails as for none.
C4_EmptyFailsSingleIsPoint ==
    DomainStepDone =>
        /\ Len(data) = 0 => DomainFailure
        /\ (Len(data) = 1 /\ ~data[1].x.nan) =>
              pc # "failed" /\ domain = PointDomain(data[1])
        /\ (Len(data) = 1 /\ data[1].x.nan) => DomainFailure

\* one observation with a valid date, its point domain in use to the end
C4_Witness ==
    /\ pc = "done"
    /\ Len(data) = 1
    /\ ~data[1].x.nan
    /\ domain = PointDomain(data[1])
    /\ Len(dots) = 1

AllResolve(f) ==
    /\ RaceResolves(f)
    /\ DriverResolves(f)
    /\ FirstResultPos(f.raceId, f.driverId) # 0
    /\ ~NoConstructorGroup(f)

\* the observation C5 describes for a fact whose relations all resolve, read
\* off the tables as loaded
Described(f) ==
    LET race == csv.races[FirstPos(csv.races, "raceId", f.raceId)]
        driver == csv.drivers[FirstPos(csv.drivers, "driverId", f.driverId)]
        result == csv.results[FirstResultPos(f.raceId, f.driverId)]
        constructor == csv.constructors[FirstPos(csv.constructors, "constructorId",
                                                 result.constructorId)]
    IN  [y |-> Number(f.milliseconds),
         x |-> NewDate(<<race.date>>),
         race |-> <<race.name>>,
         driver |-> driver.forename \o " " \o driver.surname,
         constructor |-> <<constructor.name>>,
         lap |-> <<f.lap>>]

\* C5: the observation of a retained fact whose relations all resolve is
\* built from the first race row, the first driver row, and the first
\* constructor row with the constructorId of the first result row of the
\* race and driver, each first in table order.
C5_FirstRowsAreUsed ==
    DataBuilt =>
        \A k \in 1..Len(data) :
            AllResolve(pitstops[Retained(k)]) => data[k] = Described(pitstops[Retained(k)])

\* every lookup table holds two rows for the fact's keys
C5_Witness ==
    /\ DataBuilt
    /\ Len(data) = 1
    /\ Len(csv.races) = 2 /\ csv.races[1].raceId = csv.races[2].raceId
    /\ Len(csv.drivers) = 2
    /\ Len(csv.results) = 2
    /\ csv.results[1].driverId = csv.results[2].driverId
    /\ csv.results[1].constructorId # csv.results[2].constructorId
    /\ Len(csv.constructors) = 2
    /\ csv.constructors[1].constructorId = csv.constructors[2].constructorId
    /\ data[1].race = <<csv.races[1].name>>
    /\ data[1].constructor = <<csv.constructors[1].name>>

\* C6: once the indices, the observations, the domain and the range are
\* built, no later step changes any of them; range.x and range.y keep their
\* pair until the last dot is placed.
C6_BuiltValuesAreNeverChanged ==
    [][(pc \in {"axes", "dots"}) =>
          (UNCHANGED <<races, drivers, constructors, results, data, domain, range>>)]_vars

\* C8 as stated: a computed domain brackets every observation on both axes,
\* and each of its four bounds is the value of some observation.
C8_AsStated ==
    DomainComputed =>
        /\ \A k \in 1..Len(data) :
              /\ NumLe(domain.y[1], data[k].y) /\ NumLe(data[k].y, domain.y[2])
              /\ NumLe(domain.x[1], data[k].x) /\ NumLe(data[k].x, domain.x[2])
        /\ \A b \in {domain.y[1], domain.y[2]} : \E k \in 1..Len(data) : data[k].y = b
        /\ \A b \in {domain.x[1], domain.x[2]} : \E k \in 1..Len(data) : data[k].x = b

\* C8 as amended: a domain is computed exactly when some observation has a
\* valid instant; it brackets every y by magnitude and the x of every
\* observation whose x is a valid instant, and each of its four bounds is the
\* value of some observation.
C8_DomainBracketsValidObservations ==
    /\ DomainStepDone =>
          (DomainComputed <=> \E k \in 1..Len(data) : ~data[k].x.nan)
    /\ DomainComputed =>
        /\ \A k \in 1..Len(data) :
              /\ NumLe(domain.y[1], data[k].y) /\ NumLe(data[k].y, domain.y[2])
              /\ ~data[k].x.nan =>
                    NumLe(domain.x[1], data[k].x) /\ NumLe(data[k].x, domain.x[2])
        /\ \A b \in {domain.y[1], domain.y[2]} : \E k \in 1..Len(data) : data[k].y = b
        /\ \A b \in {domain.x[1], domain.x[2]} : \E k \in 1..Len(data) : data[k].x = b

\* three observations, the extremes apart on both axes and not in table order
C8_Witness ==
    /\ DomainComputed
    /\ Len(data) = 3
    /\ NumLt(domain.y[1], domain.y[2])
    /\ NumLt(domain.x[1], domain.x[2])
    /\ data[2].y = domain.y[1]
    /\ data[1].y # domain.y[2]

\* the label C9 describes: M:SS.mmm
MinutesLabel(ms) ==
    ToString(ms \div 60000) \o ":" \o Pad2((ms \div 1000) % 60) \o "." \o Pad3(ms % 1000)

\* C9: every duration label is M:SS.mmm of its milliseconds alone, whatever
\* the host's locale and time zone.
C9_LabelDependsOnlyOnMilliseconds ==
    pc = "done" =>
        \A i \in 1..Len(dots) :
            dots[i].title =
                Str(data[i].race) \o ": " \o Str(data[i].constructor) \o " ("
                \o data[i].driver \o ") pit stop at lap " \o Str(data[i].lap)
                \o " lasted " \o MinutesLabel(data[i].y.v)

\* C10: every dot is placed by a y scale whose range is [innerHeight, 0], the
\* range of the axis scale: a dot sits on the pixel the axis scale gives its
\* value, and a longer stop is never drawn lower than a shorter one.
C10_DotsUseTheAxisOrientation ==
    pc = "done" =>
        /\ yAxis[1].range = <<innerHeight, 0>>
        /\ \A i \in 1..Len(dots) : dots[i].cy = apply(yAxis[1], data[i].y)
        /\ \A i, j \in 1..Len(dots) :
              data[i].y.v <= data[j].y.v =>
                  /\ dots[i].cy.den = dots[j].cy.den
                  /\ dots[i].cy.num >= dots[j].cy.num

\* two dots of different durations, the longer one strictly higher
C10_Witness ==
    /\ pc = "done"
    /\ \E i, j \in 1..Len(dots) :
          /\ data[i].y.v < data[j].y.v
          /\ dots[i].cy.num > dots[j].cy.num
          /\ dots[i].cy = apply(yAxis[1], data[i].y)
====
